---- MODULE Spec2Model ----
(***************************************************************************)
(* Booking management screen (src/App.tsx): one React component holding    *)
(* the form state, the in-memory booking collection and its copy in        *)
(* AsyncStorage under one key.  Storage reads and writes are asynchronous: *)
(* a handler runs up to its await, the storage operation stays in flight,  *)
(* and its completion runs the rest of the handler.                        *)
(***************************************************************************)
EXTENDS Integers, Sequences, FiniteSets, TLC

VARIABLES name, selectedDate, service, errors, bookings, showDatePicker,
          searchQuery, isLoading, isSyncing, refreshing,
          stored, pending, alerts, mounted, schemaInput, schemaResult

vars == <<name, selectedDate, service, errors, bookings, showDatePicker,
          searchQuery, isLoading, isSyncing, refreshing,
          stored, pending, alerts, mounted, schemaInput, schemaResult>>

formVars == <<name, selectedDate, service, errors, showDatePicker>>
flagVars == <<isLoading, isSyncing, refreshing>>
schemaVars == <<schemaInput, schemaResult>>

(* ------------------------------ bounds --------------------------------- *)
MaxBookings == 2      \* longest in-memory collection a submit may extend
MaxClock == 2         \* Date.now() reads one of 1..MaxClock
MaxPending == 2       \* storage operations in flight at once
MaxStrLen == 2        \* longest text drawn for a schema input or a query

(* ------------------------------ strings -------------------------------- *)
\* A string is a sequence of one-character strings.
Chars == {" ", "h", "H"}

StringsUpTo(n) == UNION {[1..k -> Chars] : k \in 0..n}

\* String.prototype.trim: drop leading and trailing white space.
RECURSIVE TrimStart(_)
TrimStart(s) == IF s # <<>> /\ Head(s) = " " THEN TrimStart(Tail(s)) ELSE s

RECURSIVE TrimEnd(_)
TrimEnd(s) ==
    IF s # <<>> /\ s[Len(s)] = " " THEN TrimEnd(SubSeq(s, 1, Len(s) - 1)) ELSE s

Trim(s) == TrimEnd(TrimStart(s))

LowerChar(c) ==
    CASE c = "H" -> "h"
      [] c = "M" -> "m"
      [] c = "C" -> "c"
      [] OTHER -> c

\* String.prototype.toLowerCase
ToLowerCase(s) == [i \in 1..Len(s) |-> LowerChar(s[i])]

\* String.prototype.includes
Includes(s, q) ==
    \E i \in 0..(Len(s) - Len(q)) : SubSeq(s, i + 1, i + Len(q)) = q

(* --------------------------- program constants ------------------------- *)
Haircut == <<"H", "a", "i", "r", "c", "u", "t">>
Massage == <<"M", "a", "s", "s", "a", "g", "e">>
Consultation == <<"C", "o", "n", "s", "u", "l", "t", "a", "t", "i", "o", "n">>

SERVICE_OPTIONS == <<Haircut, Massage, Consultation>>

ServiceType == {SERVICE_OPTIONS[i] : i \in 1..Len(SERVICE_OPTIONS)}

Undefined == "undefined"
NAME_REQUIRED == "Name is required"
DATE_REQUIRED == "Date is required"
SERVICE_REQUIRED == "Service is required"
LOAD_FAILED == "Could not load bookings. Please try again."
SAVE_FAILED == "Could not save bookings. Please try again."

NoErrors == [name |-> Undefined, date |-> Undefined, service |-> Undefined]

\* selectedDate: Date | null, as a sequence of at most one date.
NoDate == <<>>
Dates == {1}
SomeDate(d) == <<d>>

\* Date.prototype.toISOString
ToISOString(d) == [iso |-> d]

(* ------------------------------ validator ------------------------------ *)
\* {name, date: selectedDate ?? undefined, service}
FormInputOf(n, d, s) == [name |-> n, date |-> d, service |-> <<s>>]

\* A schema input is a record {name, date, service}; an absent date or service is
\* the empty sequence, a present one a one-element sequence.
\* Variant: the length test on the name as typed.
NameIssueUntrimmed(input) == Len(input.name) < 1

NameIssue(input) == Len(Trim(input.name)) < 1

DateIssue(input) == input.date = <<>>

\* Variant: any present service passes.
ServiceIssueAbsentOnly(input) == input.service = <<>>

ServiceIssue(input) == input.service = <<>> \/ input.service[1] \notin ServiceType

SafeParse(input) ==
    IF NameIssue(input) \/ DateIssue(input) \/ ServiceIssue(input)
    THEN [success |-> FALSE,
          data |-> <<>>,
          issues |-> [name |-> IF NameIssue(input) THEN NAME_REQUIRED ELSE Undefined,
                      date |-> IF DateIssue(input) THEN DATE_REQUIRED ELSE Undefined,
                      service |-> IF ServiceIssue(input)
                                  THEN SERVICE_REQUIRED ELSE Undefined]]
    ELSE [success |-> TRUE,
          data |-> <<[name |-> Trim(input.name),
                      date |-> input.date[1],
                      service |-> input.service[1]]>>,
          issues |-> NoErrors]

(* ------------------------------- storage ------------------------------- *)
\* The text under STORAGE_KEY: absent (getItem gives null), the empty string, text
\* that is no JSON, or the JSON of an array of bookings.
NullItem == [kind |-> "null", body |-> <<>>]
EmptyItem == [kind |-> "empty", body |-> <<>>]
GarbageItem == [kind |-> "garbage", body |-> <<>>]

\* JSON.stringify of a Booking[]: per record its four values, in key order.
RECURSIVE StringifyItems(_)
StringifyItems(items) ==
    IF items = <<>> THEN <<>>
    ELSE <<<<Head(items).id, Head(items).name, Head(items).date, Head(items).service>>>>
         \o StringifyItems(Tail(items))

Stringify(items) == [kind |-> "json", body |-> StringifyItems(items)]

\* JSON.parse of a stored array of bookings.
RECURSIVE ParseItems(_)
ParseItems(body) ==
    IF body = <<>> THEN <<>>
    ELSE <<[id |-> Head(body)[1], name |-> Head(body)[2],
            date |-> Head(body)[3], service |-> Head(body)[4]]>>
         \o ParseItems(Tail(body))

Parse(text) == ParseItems(text.body)

\* JSON.parse throws a SyntaxError on text that is no JSON, the empty string included.
ParseThrows(text) == text.kind \in {"garbage", "empty"}

\* Variant: stored === null
IsNull(text) == text.kind = "null"

\* !stored
IsFalsy(text) == text.kind \in {"null", "empty"}


\* What AsyncStorage may hold when the component mounts.
InitialItems ==
    {NullItem, EmptyItem, GarbageItem}

\* A storage operation in flight, with what its awaiting caller needs.  AsyncStorage
\* serves its requests one at a time, in the order they were made: pending is a queue.
ReadOp(showLoading) ==
    [kind |-> "read", showLoading |-> showLoading, text |-> NullItem, caller |-> "load"]

WriteOp(text, caller) ==
    [kind |-> "write", showLoading |-> FALSE, text |-> text, caller |-> caller]

(* ------------------------------- state --------------------------------- *)
InitApp ==
    /\ name = <<>>
    /\ selectedDate = NoDate
    /\ service = SERVICE_OPTIONS[1]
    /\ errors = NoErrors
    /\ bookings = <<>>
    /\ showDatePicker = FALSE
    /\ searchQuery = <<>>
    /\ isLoading = FALSE
    /\ isSyncing = FALSE
    /\ refreshing = FALSE
    /\ pending = <<>>
    /\ alerts = <<>>
    /\ mounted = FALSE

Init ==
    /\ InitApp
    /\ stored \in InitialItems
    /\ schemaInput = FormInputOf(<<>>, NoDate, SERVICE_OPTIONS[1])
    /\ schemaResult = <<>>

\* The user can act on the screen: it is mounted and no Alert dialog covers it.
Interactive == mounted /\ alerts = <<>>

(* ------------------------------ loading -------------------------------- *)
\* loadBookings up to its await: set the flag, start the read.
LoadBookings(showLoading) ==
    /\ Len(pending) < MaxPending
    /\ IF showLoading
       THEN isLoading' = TRUE /\ UNCHANGED refreshing
       ELSE refreshing' = TRUE /\ UNCHANGED isLoading
    /\ pending' = Append(pending, ReadOp(showLoading))
    /\ UNCHANGED <<formVars, bookings, searchQuery, isSyncing, stored, alerts,
                   schemaVars>>

\* useEffect(() => loadBookings({showLoading: true}), [])
Mount ==
    /\ ~mounted
    /\ mounted' = TRUE
    /\ LoadBookings(TRUE)

\* RefreshControl.onRefresh; the control does not fire while it shows refreshing.
Refresh ==
    /\ Interactive
    /\ ~refreshing
    /\ UNCHANGED mounted
    /\ LoadBookings(FALSE)

\* The collection a completed read leaves in memory.
Loaded(text) == IF IsFalsy(text) THEN <<>> ELSE Parse(text)

\* Variant: JSON.parse outside the try block.
LoadThrowsOnReject(rejects, text) == rejects

\* The try block throws: getItem rejects, or JSON.parse throws on what it resolved to.
LoadThrows(rejects, text) == rejects \/ (~IsFalsy(text) /\ ParseThrows(text))

\* loadBookings from its await on: the read resolves or rejects.
LoadDone(rejects) ==
    /\ pending # <<>>
    /\ Head(pending).kind = "read"
    /\ IF LoadThrows(rejects, stored)
       THEN /\ alerts' = Append(alerts, LOAD_FAILED)
            /\ UNCHANGED bookings
       ELSE /\ bookings' = Loaded(stored)
            /\ UNCHANGED alerts
    /\ IF Head(pending).showLoading
       THEN isLoading' = FALSE /\ UNCHANGED refreshing
       ELSE refreshing' = FALSE /\ UNCHANGED isLoading
    /\ pending' = Tail(pending)
    /\ UNCHANGED <<formVars, searchQuery, isSyncing, stored, mounted, schemaVars>>

(* -------------------------------- form --------------------------------- *)
\* What the user may type into the name field.
TypedNames == {<<>>, <<" ">>, <<" ", "h">>}

\* Variant: a name edit that clears every field error.
SetNameClearsAll(text) ==
    /\ Interactive
    /\ name' = text
    /\ errors' = NoErrors
    /\ UNCHANGED <<selectedDate, service, showDatePicker, bookings, searchQuery,
                   flagVars, stored, pending, alerts, mounted, schemaVars>>

\* TextInput.onChangeText of the name field
SetName(text) ==
    /\ Interactive
    /\ name' = text
    /\ errors' = [errors EXCEPT !.name = Undefined]
    /\ UNCHANGED <<selectedDate, service, showDatePicker, bookings, searchQuery,
                   flagVars, stored, pending, alerts, mounted, schemaVars>>

\* onPress of the date button
OpenDatePicker ==
    /\ Interactive
    /\ showDatePicker' = TRUE
    /\ UNCHANGED <<name, selectedDate, service, errors, bookings, searchQuery,
                   flagVars, stored, pending, alerts, mounted, schemaVars>>

\* handleDateChange(event, date): type is "dismissed" or "set"; date is absent or
\* one date.
HandleDateChange(type, date) ==
    /\ Interactive
    /\ showDatePicker
    /\ IF type # "dismissed" /\ date # <<>>
       THEN /\ selectedDate' = date
            /\ errors' = [errors EXCEPT !.date = Undefined]
       ELSE UNCHANGED <<selectedDate, errors>>
    /\ showDatePicker' = FALSE
    /\ UNCHANGED <<name, service, bookings, searchQuery, flagVars, stored, pending,
                   alerts, mounted, schemaVars>>

\* The service chips the user presses.
PressedServices == {Massage}

\* onPress of a service chip
SetService(option) ==
    /\ Interactive
    /\ service' = option
    /\ errors' = [errors EXCEPT !.service = Undefined]
    /\ UNCHANGED <<name, selectedDate, showDatePicker, bookings, searchQuery,
                   flagVars, stored, pending, alerts, mounted, schemaVars>>

\* TextInput.onChangeText of the search field
SetSearchQuery(q) ==
    /\ Interactive
    /\ searchQuery' = q
    /\ UNCHANGED <<formVars, bookings, flagVars, stored, pending, alerts,
                   mounted, schemaVars>>

\* Alert's OK button
DismissAlert ==
    /\ alerts # <<>>
    /\ alerts' = Tail(alerts)
    /\ UNCHANGED <<formVars, bookings, searchQuery, flagVars, stored, pending,
                   mounted, schemaVars>>

(* ------------------------------ the list ------------------------------- *)
\* Variant: the query trimmed before it is matched.
MatchesTrimmed(booking, query) ==
    IF Trim(query) = <<>> THEN TRUE
    ELSE LET q == ToLowerCase(Trim(query)) IN
         \/ Includes(ToLowerCase(booking.name), q)
         \/ Includes(ToLowerCase(booking.service), q)

\* The predicate of filteredBookings for one booking.
Matches(booking, query) ==
    IF Trim(query) = <<>> THEN TRUE
    ELSE LET q == ToLowerCase(query) IN
         \/ Includes(ToLowerCase(booking.name), q)
         \/ Includes(ToLowerCase(booking.service), q)

\* Array.prototype.filter with that predicate
RECURSIVE Filter(_, _)
Filter(items, query) ==
    IF items = <<>> THEN <<>>
    ELSE IF Matches(Head(items), query)
         THEN <<Head(items)>> \o Filter(Tail(items), query)
         ELSE Filter(Tail(items), query)

\* const filteredBookings, what the FlatList shows
FilteredBookings == Filter(bookings, searchQuery)

(* ------------------------------ the store ------------------------------ *)
\* The input handleSubmit hands to the schema.
FormInput == FormInputOf(name, selectedDate, service)

\* Date.now().toString(), for the clock reading t
NewId(t) == ToString(t)

NewBooking(t, data) ==
    [id |-> NewId(t),
     name |-> Trim(data.name),
     date |-> ToISOString(data.date),
     service |-> data.service]

\* Variant: [...bookings, newBooking]
InsertedAtEnd(newBooking, items) == items \o <<newBooking>>

\* [newBooking, ...bookings]
Inserted(newBooking, items) == <<newBooking>> \o items

\* Variant: booking.id === id
RECURSIVE WithoutOthers(_, _)
WithoutOthers(items, id) ==
    IF items = <<>> THEN <<>>
    ELSE IF Head(items).id = id
         THEN <<Head(items)>> \o WithoutOthers(Tail(items), id)
         ELSE WithoutOthers(Tail(items), id)

\* bookings.filter((booking) => booking.id !== id)
RECURSIVE Without(_, _)
Without(items, id) ==
    IF items = <<>> THEN <<>>
    ELSE IF Head(items).id # id
         THEN <<Head(items)>> \o Without(Tail(items), id)
         ELSE Without(Tail(items), id)

\* Variant: a persist that reads storage back after its write.
PersistBookingsThenLoad(items, caller) ==
    /\ Len(pending) + 1 < MaxPending
    /\ isSyncing' = TRUE
    /\ pending' = pending \o <<WriteOp(Stringify(items), caller), ReadOp(FALSE)>>

\* persistBookings up to its await: raise isSyncing, start the write.
PersistBookings(items, caller) ==
    /\ Len(pending) < MaxPending
    /\ isSyncing' = TRUE
    /\ pending' = Append(pending, WriteOp(Stringify(items), caller))

\* handleSubmit up to its await, t being what Date.now() reads; the button is
\* disabled while isSyncing.
HandleSubmit(t) ==
    /\ Interactive
    /\ ~isSyncing
    /\ LET v == SafeParse(FormInput) IN
       IF ~v.success
       THEN /\ errors' = v.issues
            /\ UNCHANGED <<name, selectedDate, service, showDatePicker, bookings,
                           isSyncing, pending>>
       ELSE /\ Len(bookings) < MaxBookings
            /\ bookings' = Inserted(NewBooking(t, v.data[1]), bookings)
            /\ PersistBookings(bookings', "submit")
            /\ UNCHANGED formVars
    /\ UNCHANGED <<searchQuery, isLoading, refreshing, stored, alerts, mounted,
                   schemaVars>>

\* handleDelete(id) up to its await
HandleDelete(id) ==
    /\ bookings' = Without(bookings, id)
    /\ PersistBookings(bookings', "delete")
    /\ UNCHANGED <<formVars, searchQuery, isLoading, refreshing, stored, alerts,
                   mounted, schemaVars>>

\* Variant: a rejected setItem that has written its text all the same.
StoredAfterWriteAlways(ok, text, old) == text

\* What the key holds once setItem has resolved (ok) or rejected.
StoredAfterWrite(ok, text, old) == IF ok THEN text ELSE old

\* Variant: setIsSyncing(false) at the end of the try block, not in finally.
PersistDoneSyncingStuck(ok) ==
    /\ pending # <<>>
    /\ Head(pending).kind = "write"
    /\ stored' = StoredAfterWrite(ok, Head(pending).text, stored)
    /\ alerts' = IF ok THEN alerts ELSE Append(alerts, SAVE_FAILED)
    /\ isSyncing' = IF ok THEN FALSE ELSE isSyncing
    /\ IF Head(pending).caller = "submit"
       THEN /\ name' = <<>>
            /\ selectedDate' = NoDate
            /\ service' = SERVICE_OPTIONS[1]
            /\ errors' = NoErrors
       ELSE UNCHANGED <<name, selectedDate, service, errors>>
    /\ pending' = Tail(pending)
    /\ UNCHANGED <<showDatePicker, bookings, searchQuery, isLoading, refreshing,
                   mounted, schemaVars>>

\* persistBookings from its await on, then the rest of its caller: the write
\* resolves (ok) or rejects; handleSubmit goes on to reset the form.
PersistDone(ok) ==
    /\ pending # <<>>
    /\ Head(pending).kind = "write"
    /\ stored' = StoredAfterWrite(ok, Head(pending).text, stored)
    /\ alerts' = IF ok THEN alerts ELSE Append(alerts, SAVE_FAILED)
    /\ isSyncing' = FALSE
    /\ IF Head(pending).caller = "submit"
       THEN /\ name' = <<>>
            /\ selectedDate' = NoDate
            /\ service' = SERVICE_OPTIONS[1]
            /\ errors' = NoErrors
       ELSE UNCHANGED <<name, selectedDate, service, errors>>
    /\ pending' = Tail(pending)
    /\ UNCHANGED <<showDatePicker, bookings, searchQuery, isLoading, refreshing,
                   mounted, schemaVars>>

\* The ids a booking may carry.
Ids == {ToString(t) : t \in 1..MaxClock}

\* onPress of a Delete button: the list shows one card, with its button, per
\* filtered booking, and is not rendered while isLoading.
PressDelete(id) ==
    /\ Interactive
    /\ ~isLoading
    /\ \E i \in 1..Len(FilteredBookings) : FilteredBookings[i].id = id
    /\ HandleDelete(id)

Next ==
    \/ Mount
    \/ Refresh
    \/ \E rejects \in BOOLEAN : LoadDone(rejects)
    \/ \E text \in TypedNames : SetName(text)
    \/ OpenDatePicker
    \/ \E type \in {"dismissed", "set"}, date \in {NoDate} \cup {SomeDate(d) : d \in Dates} :
          HandleDateChange(type, date)
    \/ \E option \in PressedServices : SetService(option)
    \/ \E t \in 1..MaxClock : HandleSubmit(t)
    \/ \E id \in Ids : PressDelete(id)
    \/ \E ok \in BOOLEAN : PersistDone(ok)
    \/ DismissAlert

Spec == Init /\ [][Next]_vars

(* ---------------------- a session from a fresh start -------------------- *)
\* The whole app from its first render, the form being filled the direct way: the
\* user types a name, opens the picker and sets a date, and keeps the first service.
FilledName == <<" ", "h">>

SessionStep ==
    \/ Mount
    \/ Refresh
    \/ \E rejects \in BOOLEAN : LoadDone(rejects)
    \/ SetName(FilledName)
    \/ OpenDatePicker
    \/ \E d \in Dates : HandleDateChange("set", SomeDate(d))
    \/ \E id \in Ids : PressDelete(id)
    \/ \E ok \in BOOLEAN : PersistDone(ok)
    \/ DismissAlert

\* Storage answers every request: the operation at the head of the queue is
\* eventually completed, resolved or rejected.
StorageCompletes ==
    /\ WF_vars(\E rejects \in BOOLEAN : LoadDone(rejects))
    /\ WF_vars(\E ok \in BOOLEAN : PersistDone(ok))

\* In the session the clock advances between submissions: Date.now() reads more
\* than the id of every record in memory, in storage or in a queued write.
IdNum(id) == CHOOSE n \in 1..MaxClock : ToString(n) = id

IdsOf(items) == {items[i].id : i \in 1..Len(items)}

IdsKnown ==
    IdsOf(bookings)
    \cup (IF stored.kind = "json" THEN IdsOf(Parse(stored)) ELSE {})
    \cup UNION {IdsOf(Parse(pending[i].text)) :
                  i \in {k \in 1..Len(pending) : pending[k].kind = "write"}}

NextAdvancing ==
    \/ SessionStep
    \/ \E t \in 1..MaxClock :
          /\ \A id \in IdsKnown : IdNum(id) < t
          /\ HandleSubmit(t)

SpecAdvancing == Init /\ [][NextAdvancing]_vars

FairAdvancing == SpecAdvancing /\ StorageCompletes

(* --------------------- the schema on arbitrary inputs ------------------ *)
\* bookingSchema.safeParse is a function of its argument alone; here it is applied
\* to every input of the bounded sets, the ones no form state produces included
\* (a service that is absent or outside the enum).
Other == <<"O", "t", "h", "e", "r">>

SchemaInputs ==
    [name : StringsUpTo(MaxStrLen),
     date : {NoDate} \cup {SomeDate(d) : d \in Dates},
     service : {<<>>} \cup {<<s>> : s \in ServiceType \cup {Other}}]

InitValidate ==
    /\ InitApp
    /\ stored = NullItem
    /\ schemaInput \in SchemaInputs
    /\ schemaResult = <<>>

\* bookingSchema.safeParse(schemaInput)
Validate ==
    /\ schemaResult = <<>>
    /\ schemaResult' = <<SafeParse(schemaInput)>>
    /\ UNCHANGED <<formVars, bookings, searchQuery, flagVars, stored, pending, alerts,
                   mounted, schemaInput>>

SpecValidate == InitValidate /\ [][Validate]_vars

(* --------------------- the list on arbitrary collections --------------- *)
\* filteredBookings is a function of bookings and searchQuery alone; here the
\* search field is edited over collections of valid bookings, as a load leaves them.
SampleNames == {<<"H">>, <<"h", " ", "h">>}

SampleRows == [name : SampleNames, service : ServiceType]

RowsUpTo(n) == UNION {[1..k -> SampleRows] : k \in 0..n}

\* Most recent first: the head carries the greatest id.
RECURSIVE AsBookings(_)
AsBookings(rows) ==
    IF Len(rows) = 0 THEN <<>>
    ELSE <<[id |-> ToString(Len(rows)), name |-> rows[1].name,
            date |-> ToISOString(1), service |-> rows[1].service]>>
         \o AsBookings(Tail(rows))

SampleCollections == {AsBookings(rows) : rows \in RowsUpTo(MaxBookings)}

\* The screen at rest over the stored collection items, the form untouched.
InitLoaded(items) ==
    /\ name = <<>>
    /\ selectedDate = NoDate
    /\ service = SERVICE_OPTIONS[1]
    /\ errors = NoErrors
    /\ bookings = items
    /\ showDatePicker = FALSE
    /\ searchQuery = <<>>
    /\ isLoading = FALSE
    /\ isSyncing = FALSE
    /\ refreshing = FALSE
    /\ stored = Stringify(bookings)
    /\ pending = <<>>
    /\ alerts = <<>>
    /\ mounted = TRUE
    /\ schemaInput = FormInputOf(<<>>, NoDate, SERVICE_OPTIONS[1])
    /\ schemaResult = <<>>

InitSearch == \E items \in SampleCollections : InitLoaded(items)

NextSearch == \E q \in StringsUpTo(MaxStrLen) : SetSearchQuery(q)

SpecSearch == InitSearch /\ [][NextSearch]_vars

(* ------------------- handleDelete on arbitrary identifiers ------------- *)
\* handleDelete as a function of the collection and its argument: it is called on
\* those collections with every id, the ids of no record included.
SampleIds == {ToString(t) : t \in 1..(MaxClock + 1)}

IdRows == [id : SampleIds, name : SampleNames]

RECURSIVE WithIds(_)
WithIds(rows) ==
    IF Len(rows) = 0 THEN <<>>
    ELSE <<[id |-> rows[1].id, name |-> rows[1].name,
            date |-> ToISOString(1), service |-> Haircut]>>
         \o WithIds(Tail(rows))

DeleteCollections ==
    {WithIds(rows) : rows \in UNION {[1..k -> IdRows] : k \in 0..(MaxBookings + 1)}}

InitDelete == \E items \in DeleteCollections : InitLoaded(items)

NextDelete == \E id \in SampleIds : HandleDelete(id)

SpecDelete == InitDelete /\ [][NextDelete]_vars

(* ------------------ the store under a form already filled ------------- *)
\* The handlers that read or write the collection (submit, delete, refresh and the
\* storage completions), run from every state in which the screen is at rest over
\* a collection in memory, a stored text that is that collection's or one a failed
\* write or a foreign writer left, and a form the user has filled in.
StoreRows == [name : {<<"h">>}, service : {Haircut}]

StoreCollections ==
    {AsBookings(rows) : rows \in UNION {[1..k -> StoreRows] : k \in 0..MaxBookings}}

InitStore ==
    \E items \in StoreCollections :
       /\ name \in TypedNames
       /\ selectedDate \in {NoDate} \cup {SomeDate(d) : d \in Dates}
       /\ service \in {SERVICE_OPTIONS[1]} \cup PressedServices
       /\ errors = NoErrors
       /\ bookings = items
       /\ showDatePicker = FALSE
       /\ searchQuery = <<>>
       /\ isLoading = FALSE
       /\ isSyncing = FALSE
       /\ refreshing = FALSE
       /\ stored \in InitialItems \cup {Stringify(items)}
       /\ pending = <<>>
       /\ alerts = <<>>
       /\ mounted = TRUE
       /\ schemaInput = FormInputOf(<<>>, NoDate, SERVICE_OPTIONS[1])
       /\ schemaResult = <<>>

NextStore ==
    \/ Refresh
    \/ \E rejects \in BOOLEAN : LoadDone(rejects)
    \/ \E t \in 1..MaxClock : HandleSubmit(t)
    \/ \E id \in Ids : PressDelete(id)
    \/ \E ok \in BOOLEAN : PersistDone(ok)
    \/ DismissAlert

SpecStore == InitStore /\ [][NextStore]_vars

(* --------------------- the form, over an empty store -------------------- *)
\* The booking form from the loaded app with nothing stored: the fields are
\* edited and submitted, the write of a valid submission resolves or rejects.
InitForm == InitLoaded(<<>>)

NextForm ==
    \/ \E text \in TypedNames : SetName(text)
    \/ OpenDatePicker
    \/ \E type \in {"set", "dismissed"}, date \in {NoDate} \cup {SomeDate(d) : d \in Dates} :
          HandleDateChange(type, date)
    \/ \E option \in PressedServices \cup {SERVICE_OPTIONS[1]} : SetService(option)
    \/ \E t \in 1..MaxClock : HandleSubmit(t)
    \/ \E ok \in BOOLEAN : PersistDone(ok)
    \/ DismissAlert

SpecForm == InitForm /\ [][NextForm]_vars

(* ------------------- the store, with storage that works ----------------- *)
\* The store handlers from the rest states in which storage holds the collection
\* in memory, with every getItem and setItem resolving.
InitNoFailure ==
    /\ InitStore
    /\ ~ParseThrows(stored) \/ IsFalsy(stored)
    /\ Loaded(stored) = bookings

NextNoFailure ==
    \/ Refresh
    \/ LoadDone(FALSE)
    \/ \E t \in 1..MaxClock : HandleSubmit(t)
    \/ \E id \in Ids : PressDelete(id)
    \/ PersistDone(TRUE)

SpecNoFailure == InitNoFailure /\ [][NextNoFailure]_vars

(* ============================== properties ============================= *)
\* A text of white space alone, the empty text included.
Blank(s) == \A i \in 1..Len(s) : s[i] = " "

\* out is in with the white space at its two ends removed.
IsTrimOf(out, in) ==
    /\ out # <<>> => out[1] # " " /\ out[Len(out)] # " "
    /\ \E a \in 0..Len(in) :
          /\ a + Len(out) <= Len(in)
          /\ SubSeq(in, a + 1, a + Len(out)) = out
          /\ \A i \in 1..a : in[i] = " "
          /\ \A i \in (a + Len(out) + 1)..Len(in) : in[i] = " "

\* The form holds an input that passes validation.
ValidForm == ~Blank(name) /\ selectedDate # NoDate /\ service \in ServiceType

LastPending == pending[Len(pending)]

\* C1: on a valid form handleSubmit makes the collection one new record (trimmed
\* name, the chosen date and service, the clock reading as id) followed by the
\* earlier records unchanged and in order, and starts one storage write of that
\* whole collection, whose text loads back to the same collection.
SubmitPrependsAndPersists ==
    [][\A t \in 1..MaxClock :
          (HandleSubmit(t) /\ ValidForm) =>
             /\ Len(bookings') = Len(bookings) + 1
             /\ \A i \in 1..Len(bookings) : bookings'[i + 1] = bookings[i]
             /\ bookings'[1].id = ToString(t)
             /\ IsTrimOf(bookings'[1].name, name)
             /\ bookings'[1].date = ToISOString(selectedDate[1])
             /\ bookings'[1].service = service
             /\ Len(pending') = Len(pending) + 1
             /\ \A i \in 1..Len(pending) : pending'[i] = pending[i]
             /\ pending'[Len(pending')].kind = "write"
             /\ Len(pending'[Len(pending')].text.body) = Len(bookings')
             /\ Loaded(pending'[Len(pending')].text) = bookings']_vars

\* C1 witness: a submit on a non-empty collection has acted; its write of the two
\* records is in flight.
SubmitOnNonEmptyWitness ==
    /\ Len(bookings) = 2
    /\ pending # <<>>
    /\ LastPending.kind = "write"
    /\ LastPending.caller = "submit"
    /\ Parse(LastPending.text) = bookings

\* C2: on a name that is empty or white space alone handleSubmit sets the name
\* error and changes neither the collection nor the stored text, and starts no
\* storage operation, whatever the date and the service are.
BlankNameRejected ==
    [][\A t \in 1..MaxClock :
          (HandleSubmit(t) /\ Blank(name)) =>
             /\ errors'.name = NAME_REQUIRED
             /\ bookings' = bookings
             /\ stored' = stored
             /\ pending' = pending
             /\ isSyncing' = isSyncing]_vars

\* C2 witness: a submit was refused for a name of white space alone, with a date
\* chosen, a service other than the default, and bookings in the collection.
BlankNameWitness ==
    /\ name = <<" ">>
    /\ errors.name = NAME_REQUIRED
    /\ errors.date = Undefined
    /\ selectedDate # NoDate
    /\ service = Massage
    /\ bookings # <<>>

\* C3: the schema's error mapping has a name entry iff the name is empty after
\* trimming, a date entry iff the date is absent, a service entry iff the service is
\* absent or outside the enum; it succeeds iff the mapping is empty, and the success
\* value carries the trimmed name, the date and the service.
SchemaRules ==
    schemaResult # <<>> =>
       LET r == schemaResult[1] IN
       /\ (r.issues.name # Undefined) <=> Blank(schemaInput.name)
       /\ (r.issues.date # Undefined) <=> (schemaInput.date = <<>>)
       /\ (r.issues.service # Undefined) <=>
             \/ schemaInput.service = <<>>
             \/ schemaInput.service[1] \notin {Haircut, Massage, Consultation}
       /\ r.success <=> (r.issues = NoErrors)
       /\ r.success =>
             /\ IsTrimOf(r.data[1].name, schemaInput.name)
             /\ r.data[1].date = schemaInput.date[1]
             /\ r.data[1].service = schemaInput.service[1]

\* C3 witness: the schema accepted a name it had to trim.
SchemaTrimWitness ==
    /\ schemaResult # <<>>
    /\ schemaResult[1].success
    /\ schemaResult[1].data[1].name # schemaInput.name

\* C4: handleDelete(id) leaves exactly the records whose id differs from id, in
\* their order; with no record of that id the collection is unchanged.
DeleteRemovesMatching ==
    [][\A id \in SampleIds :
          HandleDelete(id) =>
             /\ bookings' = SelectSeq(bookings, LAMBDA b : b.id # id)
             /\ (\A i \in 1..Len(bookings) : bookings[i].id # id) => bookings' = bookings]_vars

\* C4 witness: over a collection of three records with three ids, a delete has
\* removed the middle record and kept the two around it, in their order.
DeleteKeepsOthersWitness ==
    /\ Len(pending) = 1
    /\ pending[1].caller = "delete"
    /\ Len(Parse(stored)) = 3
    /\ Cardinality({Parse(stored)[i].id : i \in 1..3}) = 3
    /\ bookings = <<Parse(stored)[1], Parse(stored)[3]>>
    /\ pending[1].text = Stringify(bookings)

\* Two characters that are the same letter, whatever their case.
SameLetter(a, b) ==
    \/ a = b
    \/ {a, b} \in {{"h", "H"}, {"m", "M"}, {"c", "C"}}

\* s contains q as a substring, case ignored.
ContainsCI(s, q) ==
    \E k \in 0..(Len(s) - Len(q)) : \A j \in 1..Len(q) : SameLetter(s[k + j], q[j])

\* The records whose name or service contains the query as typed, in store order.
Containing(items, query) ==
    SelectSeq(items, LAMBDA b : ContainsCI(b.name, query) \/ ContainsCI(b.service, query))

\* C5 as stated: the list shown is the subsequence of the records whose name or
\* service contains the query, case ignored; the empty query, which every text
\* contains, shows the whole collection.
ShownAreThoseContainingQuery == FilteredBookings = Containing(bookings, searchQuery)

\* C5 as amended: a query that is empty or white space alone shows the whole
\* collection; any other query shows the subsequence of the records whose name or
\* service contains the query as typed (its own white space included), case ignored.
ShownAreAllOrThoseContainingQuery ==
    FilteredBookings =
       IF Blank(searchQuery) THEN bookings ELSE Containing(bookings, searchQuery)

\* C5 witness: a query of white space alone over a collection that holds a record
\* with no white space in its name or service, and a record with some.
BlankQueryWitness ==
    /\ searchQuery # <<>>
    /\ Blank(searchQuery)
    /\ \E i, j \in 1..Len(bookings) :
          /\ ~Includes(bookings[i].name, <<" ">>)
          /\ Includes(bookings[j].name, <<" ">>)

\* C6: a storage write that fails leaves the collection in memory as the handler
\* made it (no roll back), leaves the stored text as it was, and raises the save
\* alert.
FailedWriteKeepsMemory ==
    [][PersistDone(FALSE) =>
          /\ bookings' = bookings
          /\ stored' = stored
          /\ alerts' = Append(alerts, SAVE_FAILED)]_vars

\* C6 witness: a write has failed: the save alert is up, the key is still absent,
\* and the collection in memory holds the record the handler left in it.
FailedWriteWitness ==
    /\ alerts = <<SAVE_FAILED>>
    /\ pending = <<>>
    /\ stored = NullItem
    /\ Len(bookings) = 1

\* C7: a load that reads no value (absent, or the empty text) empties the
\* collection in memory, whatever it held, and raises no alert.
EmptyLoadGivesEmpty ==
    [][(LoadDone(FALSE) /\ stored.kind \in {"null", "empty"}) =>
          /\ bookings' = <<>>
          /\ alerts' = alerts]_vars

\* C7 witness: a load of the empty text has emptied a collection that held a
\* submitted record: the submit's write is still in flight, nothing followed it, and
\* the collection is empty with no alert.
EmptyLoadWitness ==
    /\ stored = EmptyItem
    /\ Len(pending) = 1
    /\ pending[1].caller = "submit"
    /\ bookings = <<>>
    /\ alerts = <<>>
    /\ ~isLoading /\ ~refreshing

\* C8: a load whose read rejects, or whose text does not parse, raises the load
\* alert, leaves the collection in memory as it was, and clears the flag it set.
FailedLoadAlertsAndKeeps ==
    [][\A rejects \in BOOLEAN :
          (LoadDone(rejects) /\ (rejects \/ stored.kind = "garbage")) =>
             /\ alerts' = Append(alerts, LOAD_FAILED)
             /\ bookings' = bookings
             /\ IF Head(pending).showLoading
                THEN ~isLoading' /\ refreshing' = refreshing
                ELSE ~refreshing' /\ isLoading' = isLoading]_vars

\* C8 witness: over text that does not parse, a refresh has failed: the load alert
\* is up, the collection in memory still holds its records, no flag is left set.
FailedLoadWitness ==
    /\ stored = GarbageItem
    /\ alerts = <<LOAD_FAILED>>
    /\ bookings # <<>>
    /\ pending = <<>>
    /\ ~isLoading /\ ~refreshing

\* The storage writes in flight.
WritesInFlight == {i \in 1..Len(pending) : pending[i].kind = "write"}

\* C9: at most one storage write is in flight.
AtMostOneWriteInFlight == Cardinality(WritesInFlight) <= 1

\* C10: no two records of the collection in memory have the same id.
IdsDistinct ==
    \A i, j \in 1..Len(bookings) : i # j => bookings[i].id # bookings[j].id

\* C11: a record of the collection in memory leaves it only in a delete of its
\* id, and is never altered: on every other step (submit, load or refresh done,
\* write done or failed) each record of the collection is still in it.
RecordsLeaveOnlyByDelete ==
    [][\A i \in 1..Len(bookings) :
          \/ \E j \in 1..Len(bookings') : bookings'[j] = bookings[i]
          \/ \E id \in Ids : PressDelete(id) /\ bookings[i].id = id]_vars

\* C12: every record of the collection in memory has a name that is not blank
\* and one of the three services.
BookingsValid ==
    \A i \in 1..Len(bookings) :
        /\ ~Blank(bookings[i].name)
        /\ bookings[i].service \in ServiceType

\* C12 witness: a name typed with a leading space has just been submitted next to
\* an earlier record: the new record holds the trimmed name and the service chosen.
BookingsValidWitness ==
    /\ Len(bookings) = MaxBookings
    /\ name = <<" ", "h">>
    /\ pending # <<>> /\ LastPending.caller = "submit"
    /\ LastPending.text = Stringify(bookings)
    /\ bookings[1].name = <<"h">>
    /\ bookings[1].service = Massage

\* C16: the form is reset after a submission whose write succeeded and only
\* then: a submit that fails validation and a write that fails leave the name,
\* the date and the service as entered.
ResetOnlyAfterSuccess ==
    [][/\ \A t \in 1..MaxClock :
             (HandleSubmit(t) /\ ~ValidForm) =>
                 name' = name /\ selectedDate' = selectedDate /\ service' = service
       /\ PersistDone(FALSE) =>
             name' = name /\ selectedDate' = selectedDate /\ service' = service
       /\ (PersistDone(TRUE) /\ Head(pending).caller = "submit") =>
             /\ name' = <<>> /\ selectedDate' = NoDate
             /\ service' = SERVICE_OPTIONS[1] /\ errors' = NoErrors]_vars

\* C18: isSyncing is true in every state with a storage write in flight.
SyncingWhileWriteInFlight == WritesInFlight # {} => isSyncing

\* The field errors of the input now in the form.
ErrorsOfForm ==
    [name |-> IF Blank(name) THEN NAME_REQUIRED ELSE Undefined,
     date |-> IF selectedDate = NoDate THEN DATE_REQUIRED ELSE Undefined,
     service |-> IF service \in ServiceType THEN Undefined ELSE SERVICE_REQUIRED]

\* C15: an edit of the name clears the name error and leaves the date and service
\* errors, a chosen date clears the date error and leaves the other two, a chosen
\* service clears the service error and leaves the other two; a submit that fails
\* validation makes the errors exactly those of the input in the form.
ErrorsClearedFieldByField ==
    [][/\ \A text \in TypedNames :
             SetName(text) =>
                 /\ errors'.name = Undefined
                 /\ errors'.date = errors.date /\ errors'.service = errors.service
       /\ \A date \in {SomeDate(d) : d \in Dates} :
             HandleDateChange("set", date) =>
                 /\ errors'.date = Undefined
                 /\ errors'.name = errors.name /\ errors'.service = errors.service
       /\ \A option \in ServiceType :
             SetService(option) =>
                 /\ errors'.service = Undefined
                 /\ errors'.name = errors.name /\ errors'.date = errors.date
       /\ \A t \in 1..MaxClock :
             (HandleSubmit(t) /\ ~ValidForm) => errors' = ErrorsOfForm]_vars

\* C15 witness: after a submit that failed on the date, the name has been edited
\* to a blank text: the date error is still shown and no name error is.
NameEditKeepsDateErrorWitness ==
    /\ Blank(name)
    /\ selectedDate = NoDate
    /\ errors.name = Undefined
    /\ errors.date = DATE_REQUIRED

\* C17: after the initial load, with no storage operation in flight and none
\* having failed (no operation fails in SpecNoFailure), what storage holds
\* deserializes to the collection in memory.
QuiescentConsistent ==
    (mounted /\ ~isLoading /\ pending = <<>>) => Loaded(stored) = bookings

\* The reads in flight.
ReadsInFlight == {i \in 1..Len(pending) : pending[i].kind = "read"}

\* A storage read is started in this step.
ReadStarted == Cardinality(ReadsInFlight') > Cardinality(ReadsInFlight)

\* C13 as stated: storage is read once, at startup; once the initial load is
\* done no step starts another read.
ReadOnlyAtStartup == [][(mounted /\ ~isLoading) => ~ReadStarted]_vars

\* C13: a storage read is started by the mount effect, once, and after that by
\* a pull-to-refresh and by nothing else (no edit of the form, submit, delete,
\* completion or dismissed alert starts one).
ReadAtStartupAndOnRefresh ==
    [][ReadStarted => IF mounted THEN Refresh ELSE Mount]_vars

\* C13 witness: after the initial load a pull-to-refresh has started a second
\* read, behind the write of a submitted record.
RefreshReadWitness ==
    /\ mounted /\ ~isLoading /\ refreshing
    /\ Len(pending) = 2
    /\ pending[1].kind = "write"
    /\ pending[2] = ReadOp(FALSE)

\* C14: the collection in memory is most recent first: of two records created by
\* handleSubmit the one created later (the greater clock reading, the clock
\* advancing between submissions) comes earlier.
MostRecentFirst ==
    \A i, j \in 1..Len(bookings) :
        i < j => IdNum(bookings[i].id) > IdNum(bookings[j].id)

\* C14 witness: two records submitted one after the other are in memory, storage
\* holds their text and nothing is in flight.
MostRecentFirstWitness ==
    /\ Len(bookings) = 2
    /\ pending = <<>>
    /\ stored = Stringify(bookings)
    /\ ~refreshing /\ ~isSyncing

\* C19: with storage answering every request, a load flag that is set is
\* eventually cleared (isLoading, refreshing), and isSyncing set by a write is
\* eventually false again, whether the operation resolves or rejects.
FlagsEventuallyCleared ==
    /\ isLoading ~> ~isLoading
    /\ refreshing ~> ~refreshing
    /\ isSyncing ~> ~isSyncing

\* C19 witness: a write has rejected: the save alert is up, nothing is in flight
\* and isSyncing is false again, as are the two load flags.
FlagsClearedAfterRejectWitness ==
    /\ alerts = <<SAVE_FAILED>>
    /\ pending = <<>>
    /\ ~isSyncing /\ ~isLoading /\ ~refreshing
    /\ mounted

====
